---------------------------- MODULE Spec2Model ----------------------------
(***************************************************************************)
(* Model of honorarios.py: the UMA fee schedule (ESCALA), the bracket      *)
(* lookup buscar_tramo, the P1/P2 fee computation calcular_uma_p1p2 and    *)
(* the form handlers RegulacionUMA.calcular / RegulacionUMA.limpiar.       *)
(*                                                                         *)
(* Python floats are modelled as exact rationals <<numerator,              *)
(* denominator>> in lowest terms with a positive denominator, so 0.22 is   *)
(* 11/50 and 1.4 is 7/5.  Binary rounding of the float type is therefore   *)
(* outside the model.                                                      *)
(***************************************************************************)
EXTENDS Integers, Sequences, FiniteSets, TLC

VARIABLES edt_cap_planilla, edt_int_planilla, dt_corte, dt_calculo,
          edt_to, edt_tm, edt_uma_calc,
          chk_apoderado, chk_mitad41, chk_sin_exc,
          edt_uma_pago, out, shown,
          flags, calls

form == <<edt_cap_planilla, edt_int_planilla, dt_corte, dt_calculo,
          edt_to, edt_tm, edt_uma_calc,
          chk_apoderado, chk_mitad41, chk_sin_exc, edt_uma_pago>>

vars == <<edt_cap_planilla, edt_int_planilla, dt_corte, dt_calculo,
          edt_to, edt_tm, edt_uma_calc,
          chk_apoderado, chk_mitad41, chk_sin_exc,
          edt_uma_pago, out, shown, flags, calls>>

-----------------------------------------------------------------------------
(* float arithmetic, as exact rationals *)

Abs(n) == IF n < 0 THEN -n ELSE n

RECURSIVE GCD(_, _)
GCD(a, b) == IF b = 0 THEN a ELSE GCD(b, a % b)

LCM(a, b) == (a \div GCD(a, b)) * b

\* n/d in lowest terms, d > 0
RNorm(n, d) ==
    LET s == IF d < 0 THEN -1 ELSE 1
        g == GCD(Abs(n), Abs(d))
    IN  <<(s * n) \div g, (s * d) \div g>>

R(n) == <<n, 1>>

RAdd(a, b) ==
    LET L == LCM(a[2], b[2])
    IN  RNorm(a[1] * (L \div a[2]) + b[1] * (L \div b[2]), L)

RNeg(a) == <<-a[1], a[2]>>

RSub(a, b) == RAdd(a, RNeg(b))

RMul(a, b) ==
    LET g1 == GCD(Abs(a[1]), b[2])
        g2 == GCD(Abs(b[1]), a[2])
    IN  RNorm((a[1] \div g1) * (b[1] \div g2), (a[2] \div g2) * (b[2] \div g1))

\* a / b for b # 0 (Python raises ZeroDivisionError when b = 0; the caller
\* tests for it before dividing)
RDiv(a, b) == RMul(a, RNorm(b[2], b[1]))

RLeq(a, b) ==
    LET L == LCM(a[2], b[2])
    IN  a[1] * (L \div a[2]) <= b[1] * (L \div b[2])

RLt(a, b) == RLeq(a, b) /\ a # b

RMin(a, b) == IF RLt(b, a) THEN b ELSE a

RMax(a, b) == IF RLt(a, b) THEN b ELSE a

-----------------------------------------------------------------------------
(* Escala (art. 21 Ley 27.423) *)

\* Optional[float] None: not a rational (denominator 0)
None == <<0, 0>>

Tramo(min_uma, max_uma, pct_min, pct_max) ==
    [min_uma |-> min_uma, max_uma |-> max_uma,
     pct_min |-> pct_min, pct_max |-> pct_max]

Pct(n) == RNorm(n, 100)

ESCALA_list ==
    << Tramo(R(0),   R(15),  Pct(22), Pct(33)),
       Tramo(R(16),  R(45),  Pct(20), Pct(26)),
       Tramo(R(46),  R(90),  Pct(18), Pct(24)),
       Tramo(R(91),  R(150), Pct(17), Pct(22)),
       Tramo(R(151), R(450), Pct(15), Pct(20)),
       Tramo(R(451), R(750), Pct(13), Pct(17)),
       Tramo(R(751), None,   Pct(12), Pct(15)) >>

\* indexed from 0 as in the source
ESCALA == [i \in 0..(Len(ESCALA_list) - 1) |-> ESCALA_list[i + 1]]

\* the test of one loop iteration of buscar_tramo
tramo_matches(t, uma_total) ==
    IF t.max_uma = None
    THEN RLeq(t.min_uma, uma_total)
    ELSE RLeq(t.min_uma, uma_total) /\ RLeq(uma_total, t.max_uma)

RECURSIVE buscar_desde(_, _)
buscar_desde(i, uma_total) ==
    IF i \notin DOMAIN ESCALA
    THEN <<0, ESCALA[0]>>
    ELSE IF tramo_matches(ESCALA[i], uma_total)
         THEN <<i, ESCALA[i]>>
         ELSE buscar_desde(i + 1, uma_total)

buscar_tramo(uma_total) == buscar_desde(0, uma_total)

-----------------------------------------------------------------------------
(* Calculo UMA (art. 21) - P1/P2 *)

\* as mult_de, with the last adjustment assigned instead of multiplied in
mult_de_asigna(es_apoderado, mitad_art41, aplicar_menos10) ==
    LET m0 == R(1)
        m1 == IF es_apoderado THEN RMul(m0, RNorm(14, 10)) ELSE m0
        m2 == IF mitad_art41 THEN RMul(m1, RNorm(5, 10)) ELSE m1
        m3 == IF aplicar_menos10 THEN RNorm(9, 10) ELSE m2
    IN  m3

\* lines 88-94
mult_de(es_apoderado, mitad_art41, aplicar_menos10) ==
    LET m0 == R(1)
        m1 == IF es_apoderado THEN RMul(m0, RNorm(14, 10)) ELSE m0
        m2 == IF mitad_art41 THEN RMul(m1, RNorm(5, 10)) ELSE m1
        m3 == IF aplicar_menos10 THEN RMul(m2, RNorm(9, 10)) ELSE m2
    IN  m3

\* as prev_de, with the previous entry's minimum rate
prev_de_pct_min(idx) ==
    IF idx = 0
    THEN [prev_max_uma |-> R(0), pct_prev |-> R(0)]
    ELSE LET tramo_prev == ESCALA[idx - 1]
         IN  [prev_max_uma |-> IF tramo_prev.max_uma # None
                               THEN tramo_prev.max_uma ELSE R(0),
              pct_prev |-> tramo_prev.pct_min]

\* as prev_de, reading the current entry instead of the previous one
prev_de_actual(idx) ==
    IF idx = 0
    THEN [prev_max_uma |-> R(0), pct_prev |-> R(0)]
    ELSE LET tramo_prev == ESCALA[idx]
         IN  [prev_max_uma |-> IF tramo_prev.max_uma # None
                               THEN tramo_prev.max_uma ELSE R(0),
              pct_prev |-> tramo_prev.pct_max]

\* lines 75-81
prev_de(idx) ==
    IF idx = 0
    THEN [prev_max_uma |-> R(0), pct_prev |-> R(0)]
    ELSE LET tramo_prev == ESCALA[idx - 1]
         IN  [prev_max_uma |-> IF tramo_prev.max_uma # None
                               THEN tramo_prev.max_uma ELSE R(0),
              pct_prev |-> tramo_prev.pct_max]

\* as partir_p1p2, without the subtraction
partir_p1p2_sin_resta(uma_total, prev_max_uma) ==
    LET p1_uma == RMin(uma_total, prev_max_uma)
        p2_uma == RMax(R(0), uma_total)
    IN  [p1_uma |-> p1_uma, p2_uma |-> p2_uma]

\* as partir_p1p2, with the operands of the subtraction exchanged
partir_p1p2_invertida(uma_total, prev_max_uma) ==
    LET p1_uma == RMin(uma_total, prev_max_uma)
        p2_uma == RMax(R(0), RSub(p1_uma, uma_total))
    IN  [p1_uma |-> p1_uma, p2_uma |-> p2_uma]

\* lines 83-84
partir_p1p2(uma_total, prev_max_uma) ==
    LET p1_uma == RMin(uma_total, prev_max_uma)
        p2_uma == RMax(R(0), RSub(uma_total, p1_uma))
    IN  [p1_uma |-> p1_uma, p2_uma |-> p2_uma]

(* calcular_uma_p1p2 is written as a chain of steps, each handing the values
   computed so far to the next, in the order of the source. *)

\* lines 99-115
p1p2_resultado(tramo_act, p, pct_prev, pct_act_base, pct_p1_eff, pct_p2_eff) ==
    LET res_a == RMul(p.p1_uma, pct_p1_eff)
        res_b == RMul(p.p2_uma, pct_p2_eff)
        total == RAdd(res_a, res_b)
    IN  [total |-> total,
         det |-> [tramo_actual |-> tramo_act,
                  p1_uma |-> p.p1_uma,
                  p2_uma |-> p.p2_uma,
                  pct_prev_max |-> pct_prev,
                  pct_act_base_min |-> pct_act_base,
                  pct_p1_eff |-> pct_p1_eff,
                  pct_p2_eff |-> pct_p2_eff,
                  res_a_uma |-> res_a,
                  res_b_uma |-> res_b]]

\* lines 83-97
p1p2_con_prev(uma_total, tramo_act, prev, mult) ==
    p1p2_resultado(tramo_act,
                   partir_p1p2(uma_total, prev.prev_max_uma),
                   prev.pct_prev,
                   tramo_act.pct_min,
                   RMul(prev.pct_prev, mult),
                   RMul(tramo_act.pct_min, mult))

\* lines 75-81, bt being the pair (idx, tramo_act) of line 74
p1p2_en_tramo(uma_total, bt, mult) ==
    p1p2_con_prev(uma_total, bt[2], prev_de(bt[1]), mult)

calcular_uma_p1p2(uma_total, es_apoderado, mitad_art41, aplicar_menos10) ==
    p1p2_en_tramo(uma_total, buscar_tramo(uma_total),
                  mult_de(es_apoderado, mitad_art41, aplicar_menos10))

-----------------------------------------------------------------------------
(* Direct calls of calcular_uma_p1p2 (the module's public function) *)

\* denominator of the fractional values of uma_total that are tried
UnitDen == 2

\* how many results are kept side by side for comparison
MaxCalls == 2

\* whole parts of the values of uma_total that are tried: both sides of every
\* limit of ESCALA, and the total of the worked example
Wholes == {0, 15, 16, 45, 46, 90, 91, 150, 151, 450, 451, 750, 751, 1029}

Units == {RNorm(w * UnitDen + f, UnitDen) : w \in Wholes, f \in 0..(UnitDen - 1)}

FlagSets == [es_apoderado : BOOLEAN, mitad_art41 : BOOLEAN, aplicar_menos10 : BOOLEAN]

\* one call: the arguments and what the function returned
CallUma(uma_total) ==
    /\ Cardinality(calls) < MaxCalls
    /\ uma_total \notin {c.uma_total : c \in calls}
    /\ calls' = calls \cup
         {[uma_total |-> uma_total,
           ret |-> calcular_uma_p1p2(uma_total, flags.es_apoderado,
                                     flags.mitad_art41, flags.aplicar_menos10)]}
    /\ UNCHANGED <<form, out, shown, flags>>

-----------------------------------------------------------------------------
(* Utilidades: texts are sequences of one-character strings *)

Digits == {"0", "1", "2", "3", "4", "5", "6", "7", "8", "9"}

DigitVal == ("0" :> 0) @@ ("1" :> 1) @@ ("2" :> 2) @@ ("3" :> 3) @@ ("4" :> 4) @@
            ("5" :> 5) @@ ("6" :> 6) @@ ("7" :> 7) @@ ("8" :> 8) @@ ("9" :> 9)

RECURSIVE lstrip(_)
lstrip(s) == IF s # <<>> /\ Head(s) = " " THEN lstrip(Tail(s)) ELSE s

RECURSIVE rstrip(_)
rstrip(s) ==
    IF s # <<>> /\ s[Len(s)] = " " THEN rstrip(SubSeq(s, 1, Len(s) - 1)) ELSE s

strip(s) == rstrip(lstrip(s))

contains(s, c) == \E i \in DOMAIN s : s[i] = c

\* str.replace for a one-character pattern; new is a text (possibly empty)
RECURSIVE replace(_, _, _)
replace(s, old, new) ==
    IF s = <<>> THEN <<>>
    ELSE (IF Head(s) = old THEN new ELSE <<Head(s)>>) \o replace(Tail(s), old, new)

RECURSIVE digits_value(_)
digits_value(ds) ==
    IF ds = <<>> THEN 0
    ELSE digits_value(SubSeq(ds, 1, Len(ds) - 1)) * 10 + DigitVal[ds[Len(ds)]]

RECURSIVE pow10(_)
pow10(k) == IF k = 0 THEN 1 ELSE 10 * pow10(k - 1)

\* what a parse returns: err = "" and the value, or the exception's message
Ok(v) == [err |-> "", val |-> v]

Raise(msg) == [err |-> msg, val |-> None]

\* float(s) on the decimal literals [sign] digits [. digits]; any other text
\* of the alphabet used here raises ValueError
float(s) ==
    LET signed == s # <<>> /\ Head(s) \in {"-", "+"}
        body == IF signed THEN Tail(s) ELSE s
        dots == {i \in DOMAIN body : body[i] = "."}
        wellformed ==
            /\ \A i \in DOMAIN body : body[i] \in Digits \cup {"."}
            /\ Cardinality(dots) <= 1
            /\ \E i \in DOMAIN body : body[i] \in Digits
        ds == SelectSeq(body, LAMBDA c : c \in Digits)
        k == IF dots = {} THEN 0 ELSE Len(body) - (CHOOSE i \in dots : TRUE)
        mag == RNorm(digits_value(ds), pow10(k))
    IN  IF ~wellformed THEN Raise("could not convert string to float")
        ELSE Ok(IF signed /\ Head(s) = "-" THEN RNeg(mag) ELSE mag)

parse_float_robusto(texto) ==
    LET s == strip(texto)
    IN  IF s = <<>> THEN Raise("Entrada vacia.")
        ELSE IF contains(s, ",") /\ contains(s, ".")
             THEN float(replace(replace(s, ".", <<>>), ",", <<".">>))
             ELSE float(replace(s, ",", <<".">>))

-----------------------------------------------------------------------------
(* RegulacionUMA: the form and its handlers *)

\* dates are day numbers.  A QDateEdit starts at Qt's initial date, which is
\* in the past; QDate.currentDate() is the day the program runs.
FechaInicial == 0

Hoy == 1

Fechas == {FechaInicial, Hoy}

\* no QMessageBox was shown by the handler that ran last
NoDialog == ""

\* the empty QTextEdit
EmptyDoc == <<>>

\* as truediv, with a zero divisor answered by 0 instead of the exception
truediv_cero(a, b) ==
    IF b = R(0) THEN Ok(R(0)) ELSE Ok(RDiv(a, b))

\* a / b as Python evaluates it on floats
truediv(a, b) ==
    IF b = R(0) THEN Raise("float division by zero") ELSE Ok(RDiv(a, b))

\* as fechas_invalidas, letting equal dates through
fechas_invalidas_mayor(corte, fcalc) == corte > fcalc

\* the test of line 228
fechas_invalidas(corte, fcalc) == corte >= fcalc

\* the test of line 245
uma_invalida(uma_calc_val) == RLeq(uma_calc_val, R(0))

\* as base_regulatoria, with the factor applied to capital plus interest
base_regulatoria_compuesta(cap_planilla, int_planilla, cociente) ==
    LET total_planilla == RAdd(cap_planilla, int_planilla)
        factor == RSub(cociente, R(1))
        interes_adic == RMul(total_planilla, factor)
        base_reg == RAdd(total_planilla, interes_adic)
    IN  [factor |-> factor, interes_adic |-> interes_adic, base_reg |-> base_reg]

\* lines 230-241, given the quotient of line 239
base_regulatoria(cap_planilla, int_planilla, cociente) ==
    LET total_planilla == RAdd(cap_planilla, int_planilla)
        factor == RSub(cociente, R(1))
        interes_adic == RMul(cap_planilla, factor)
        base_reg == RAdd(total_planilla, interes_adic)
    IN  [factor |-> factor, interes_adic |-> interes_adic, base_reg |-> base_reg]

\* as pesos_al_pago, rejecting a value that is not positive the way line 245
\* rejects the other UMA value
pesos_al_pago_exige(texto, honor_uma) ==
    IF strip(texto) = <<>>
    THEN Ok([pesos_pago |-> None, uma_pago |-> None])
    ELSE LET p == parse_float_robusto(texto)
         IN  IF p.err # "" THEN p
             ELSE IF RLt(R(0), p.val)
                  THEN Ok([pesos_pago |-> RMul(honor_uma, p.val), uma_pago |-> p.val])
                  ELSE Raise("Ingrese un valor de UMA al pago mayor que 0.")

\* lines 259-265: pesos_pago and the value printed as uma_pago_txt (None when
\* the step is skipped), or the exception of the parse
pesos_al_pago(texto, honor_uma) ==
    IF strip(texto) = <<>>
    THEN Ok([pesos_pago |-> None, uma_pago |-> None])
    ELSE LET p == parse_float_robusto(texto)
         IN  IF p.err # "" THEN p
             ELSE IF RLt(R(0), p.val)
                  THEN Ok([pesos_pago |-> RMul(honor_uma, p.val), uma_pago |-> p.val])
                  ELSE Ok([pesos_pago |-> None, uma_pago |-> None])

(* The body of the try block of calcular: the exception raised (err), or the
   values the lines of the result are printed from (doc).  It is written as a
   chain of steps in the order of the source, each handing on the locals
   computed so far. *)

Fail(msg) == [err |-> msg, doc |-> EmptyDoc]

\* lines 267-309
tras_pago(cap_planilla, int_planilla, t_o, t_m, b, uma_calc_val, uma_total, h, pago) ==
    IF pago.err # "" THEN Fail(pago.err)
    ELSE [err |-> "",
          doc |-> [cap_planilla |-> cap_planilla,
                   int_planilla |-> int_planilla,
                   corte |-> dt_corte,
                   fcalc |-> dt_calculo,
                   desde |-> dt_corte + 1,
                   hasta_incl |-> dt_calculo,
                   t_o |-> t_o,
                   t_m |-> t_m,
                   factor |-> b.factor,
                   interes_adic |-> b.interes_adic,
                   base_reg |-> b.base_reg,
                   uma_calc_val |-> uma_calc_val,
                   uma_total |-> uma_total,
                   det |-> h.det,
                   es_apoderado |-> chk_apoderado,
                   mitad_art41 |-> chk_mitad41,
                   aplicar_menos10 |-> chk_sin_exc,
                   honor_uma |-> h.total,
                   pesos_pago |-> pago.val.pesos_pago,
                   uma_pago |-> pago.val.uma_pago]]

\* lines 258-265
tras_honorarios(cap_planilla, int_planilla, t_o, t_m, b, uma_calc_val, uma_total, h) ==
    tras_pago(cap_planilla, int_planilla, t_o, t_m, b, uma_calc_val, uma_total, h,
              pesos_al_pago(edt_uma_pago, h.total))

\* lines 249-256
tras_uma(cap_planilla, int_planilla, t_o, t_m, b, uma_calc_val, uma_total) ==
    tras_honorarios(cap_planilla, int_planilla, t_o, t_m, b, uma_calc_val, uma_total,
                    calcular_uma_p1p2(uma_total, chk_apoderado, chk_mitad41, chk_sin_exc))

\* lines 244-247
tras_base(cap_planilla, int_planilla, t_o, t_m, b, uma_calc) ==
    IF uma_calc.err # "" THEN Fail(uma_calc.err)
    ELSE IF uma_invalida(uma_calc.val)
         THEN Fail("Ingrese un valor de UMA a la fecha de calculo mayor que 0.")
         ELSE tras_uma(cap_planilla, int_planilla, t_o, t_m, b, uma_calc.val,
                       RDiv(b.base_reg, uma_calc.val))

\* lines 239-241
tras_cociente(cap_planilla, int_planilla, t_o, t_m, coc) ==
    IF coc.err # "" THEN Fail(coc.err)
    ELSE tras_base(cap_planilla, int_planilla, t_o, t_m,
                   base_regulatoria(cap_planilla, int_planilla, coc.val),
                   parse_float_robusto(edt_uma_calc))

\* lines 236-239
tras_tasas(cap_planilla, int_planilla, t_o, t_m) ==
    IF t_o.err # "" THEN Fail(t_o.err)
    ELSE IF t_m.err # "" THEN Fail(t_m.err)
    ELSE tras_cociente(cap_planilla, int_planilla, t_o.val, t_m.val,
                       truediv(RAdd(R(100), t_m.val), RAdd(R(100), t_o.val)))

\* lines 224-237
tras_planilla(cap, int) ==
    IF cap.err # "" THEN Fail(cap.err)
    ELSE IF int.err # "" THEN Fail(int.err)
    ELSE IF fechas_invalidas(dt_corte, dt_calculo)
         THEN Fail("La fecha de corte debe ser ANTERIOR a la fecha de calculo.")
         ELSE tras_tasas(cap.val, int.val,
                         parse_float_robusto(edt_to), parse_float_robusto(edt_tm))

calcular_try ==
    tras_planilla(parse_float_robusto(edt_cap_planilla),
                  parse_float_robusto(edt_int_planilla))

\* "Calcular regulacion": setHtml on success, QMessageBox.critical on any
\* exception; the form itself is only read
calcular ==
    /\ \E r \in {calcular_try} :
         IF r.err = ""
         THEN out' = r.doc /\ shown' = NoDialog
         ELSE out' = out /\ shown' = r.err
    /\ UNCHANGED <<form, flags, calls>>

\* "Limpiar"
limpiar ==
    /\ edt_cap_planilla' = <<>>
    /\ edt_int_planilla' = <<>>
    /\ dt_corte' = Hoy
    /\ dt_calculo' = Hoy
    /\ edt_to' = <<>>
    /\ edt_tm' = <<>>
    /\ edt_uma_calc' = <<>>
    /\ chk_apoderado' = TRUE
    /\ chk_mitad41' = TRUE
    /\ chk_sin_exc' = TRUE
    /\ edt_uma_pago' = <<>>
    /\ out' = EmptyDoc
    /\ shown' = NoDialog
    /\ UNCHANGED <<flags, calls>>

(* The user's edits of the widgets.  The texts are the ones tried; they are
   texts as text() hands them to parse_float_robusto. *)

TextosCapital == {<<"3", "0", "0", "0">>, <<"1", ".", "5", "0", "0", ",", "5">>}

TextosIntereses == {<<"0">>, <<"6", "0", "0">>}

TextosTo == {<<"-", "1", "0", "0">>, <<"2", "5">>}

TextosTm == {<<"5", "0">>}

TextosUmaCalc == {<<"0">>, <<"2">>}

TextosUmaPago == {<<>>, <<"0">>, <<"3">>}

editar_cap_planilla(t) ==
    /\ edt_cap_planilla' = t
    /\ shown' = NoDialog
    /\ UNCHANGED <<edt_int_planilla, dt_corte, dt_calculo, edt_to, edt_tm,
                   edt_uma_calc, chk_apoderado, chk_mitad41, chk_sin_exc,
                   edt_uma_pago, out, flags, calls>>

editar_int_planilla(t) ==
    /\ edt_int_planilla' = t
    /\ shown' = NoDialog
    /\ UNCHANGED <<edt_cap_planilla, dt_corte, dt_calculo, edt_to, edt_tm,
                   edt_uma_calc, chk_apoderado, chk_mitad41, chk_sin_exc,
                   edt_uma_pago, out, flags, calls>>

editar_corte(d) ==
    /\ dt_corte' = d
    /\ shown' = NoDialog
    /\ UNCHANGED <<edt_cap_planilla, edt_int_planilla, dt_calculo, edt_to, edt_tm,
                   edt_uma_calc, chk_apoderado, chk_mitad41, chk_sin_exc,
                   edt_uma_pago, out, flags, calls>>

editar_calculo(d) ==
    /\ dt_calculo' = d
    /\ shown' = NoDialog
    /\ UNCHANGED <<edt_cap_planilla, edt_int_planilla, dt_corte, edt_to, edt_tm,
                   edt_uma_calc, chk_apoderado, chk_mitad41, chk_sin_exc,
                   edt_uma_pago, out, flags, calls>>

editar_to(t) ==
    /\ edt_to' = t
    /\ shown' = NoDialog
    /\ UNCHANGED <<edt_cap_planilla, edt_int_planilla, dt_corte, dt_calculo, edt_tm,
                   edt_uma_calc, chk_apoderado, chk_mitad41, chk_sin_exc,
                   edt_uma_pago, out, flags, calls>>

editar_tm(t) ==
    /\ edt_tm' = t
    /\ shown' = NoDialog
    /\ UNCHANGED <<edt_cap_planilla, edt_int_planilla, dt_corte, dt_calculo, edt_to,
                   edt_uma_calc, chk_apoderado, chk_mitad41, chk_sin_exc,
                   edt_uma_pago, out, flags, calls>>

editar_uma_calc(t) ==
    /\ edt_uma_calc' = t
    /\ shown' = NoDialog
    /\ UNCHANGED <<edt_cap_planilla, edt_int_planilla, dt_corte, dt_calculo, edt_to,
                   edt_tm, chk_apoderado, chk_mitad41, chk_sin_exc,
                   edt_uma_pago, out, flags, calls>>

editar_uma_pago(t) ==
    /\ edt_uma_pago' = t
    /\ shown' = NoDialog
    /\ UNCHANGED <<edt_cap_planilla, edt_int_planilla, dt_corte, dt_calculo, edt_to,
                   edt_tm, edt_uma_calc, chk_apoderado, chk_mitad41, chk_sin_exc,
                   out, flags, calls>>

marcar_apoderado ==
    /\ chk_apoderado' = ~chk_apoderado
    /\ shown' = NoDialog
    /\ UNCHANGED <<edt_cap_planilla, edt_int_planilla, dt_corte, dt_calculo, edt_to,
                   edt_tm, edt_uma_calc, chk_mitad41, chk_sin_exc,
                   edt_uma_pago, out, flags, calls>>

marcar_mitad41 ==
    /\ chk_mitad41' = ~chk_mitad41
    /\ shown' = NoDialog
    /\ UNCHANGED <<edt_cap_planilla, edt_int_planilla, dt_corte, dt_calculo, edt_to,
                   edt_tm, edt_uma_calc, chk_apoderado, chk_sin_exc,
                   edt_uma_pago, out, flags, calls>>

marcar_sin_exc ==
    /\ chk_sin_exc' = ~chk_sin_exc
    /\ shown' = NoDialog
    /\ UNCHANGED <<edt_cap_planilla, edt_int_planilla, dt_corte, dt_calculo, edt_to,
                   edt_tm, edt_uma_calc, chk_apoderado, chk_mitad41,
                   edt_uma_pago, out, flags, calls>>

-----------------------------------------------------------------------------
(* Specifications *)

\* the form after RegulacionUMA.__init__
FormInit ==
    /\ edt_cap_planilla = <<>>
    /\ edt_int_planilla = <<>>
    /\ dt_corte = FechaInicial
    /\ dt_calculo = Hoy
    /\ edt_to = <<>>
    /\ edt_tm = <<>>
    /\ edt_uma_calc = <<>>
    /\ chk_apoderado = TRUE
    /\ chk_mitad41 = TRUE
    /\ chk_sin_exc = TRUE
    /\ edt_uma_pago = <<>>
    /\ out = EmptyDoc
    /\ shown = NoDialog

Init ==
    /\ FormInit
    /\ flags = [es_apoderado |-> TRUE, mitad_art41 |-> TRUE, aplicar_menos10 |-> TRUE]
    /\ calls = {}

Next ==
    \/ calcular
    \/ limpiar
    \/ \E t \in TextosCapital : editar_cap_planilla(t)
    \/ \E t \in TextosIntereses : editar_int_planilla(t)
    \/ \E d \in Fechas : editar_corte(d)
    \/ \E d \in Fechas : editar_calculo(d)
    \/ \E t \in TextosTo : editar_to(t)
    \/ \E t \in TextosTm : editar_tm(t)
    \/ \E t \in TextosUmaCalc : editar_uma_calc(t)
    \/ \E t \in TextosUmaPago : editar_uma_pago(t)
    \/ marcar_apoderado
    \/ marcar_mitad41
    \/ marcar_sin_exc

Spec == Init /\ [][Next]_vars

\* calcular_uma_p1p2 called directly, the flags fixed for the run
FeeInit ==
    /\ FormInit
    /\ flags \in FlagSets
    /\ calls = {}

FeeNext == \E u \in Units : CallUma(u)

FeeSpec == FeeInit /\ [][FeeNext]_vars

-----------------------------------------------------------------------------
(* Properties of buscar_tramo and calcular_uma_p1p2, over the calls made *)

NoNegativo(x) == RLeq(R(0), x)

\* the index in ESCALA of the entry a call was regulated in
IdxDe(c) == CHOOSE i \in DOMAIN ESCALA : ESCALA[i] = c.ret.det.tramo_actual

\* the entry contains the value: min <= x <= max, or min <= x when unbounded
Contiene(t, x) ==
    /\ RLeq(t.min_uma, x)
    /\ t.max_uma # None => RLeq(x, t.max_uma)

\* the multiplier as the product of the three factors, in the order given
Factor(k) ==
    CASE k = 1 -> IF flags.es_apoderado THEN RNorm(14, 10) ELSE R(1)
      [] k = 2 -> IF flags.mitad_art41 THEN RNorm(5, 10) ELSE R(1)
      [] k = 3 -> IF flags.aplicar_menos10 THEN RNorm(9, 10) ELSE R(1)

Producto(i, j, k) == RMul(RMul(Factor(i), Factor(j)), Factor(k))

Ordenes == {o \in [1..3 -> 1..3] : \A i, j \in 1..3 : i # j => o[i] # o[j]}

Multiplicador == Producto(1, 2, 3)

\* the maximum and the maximum rate of the entry before entry idx
MaxAnterior(idx) == IF idx = 0 THEN R(0) ELSE ESCALA[idx - 1].max_uma

PctAnterior(idx) == IF idx = 0 THEN R(0) ELSE ESCALA[idx - 1].pct_max

\* C1: for every non-negative uma_total, buscar_tramo returns an entry of
\* ESCALA that contains uma_total (the schedule covers [0, infinity) and the
\* fallback to the first entry is never taken).
C1_TramoContieneTotal ==
    \A c \in calls :
        NoNegativo(c.uma_total) => Contiene(c.ret.det.tramo_actual, c.uma_total)

\* C2: for every uma_total >= 0 and every flag combination, p1 is
\* min(uma_total, priorMax), p2 is max(0, uma_total - p1), neither is negative
\* and p1 + p2 = uma_total.
C2_SplitConservation ==
    \A c \in calls :
        NoNegativo(c.uma_total) =>
            LET d == c.ret.det
                priorMax == MaxAnterior(IdxDe(c))
            IN  /\ d.p1_uma = RMin(c.uma_total, priorMax)
                /\ d.p2_uma = RMax(R(0), RSub(c.uma_total, d.p1_uma))
                /\ NoNegativo(d.p1_uma)
                /\ NoNegativo(d.p2_uma)
                /\ RAdd(d.p1_uma, d.p2_uma) = c.uma_total

\* a call whose total is split in two positive parts
C2_Witness ==
    \E c \in calls : RLt(R(0), c.ret.det.p1_uma) /\ RLt(R(0), c.ret.det.p2_uma)

\* C3: the part up to the previous entry's maximum is rated at the previous
\* entry's maximum rate and the excess at the current entry's minimum rate;
\* in the first entry the fee is uma_total x pct_min x multiplier; 15 is in
\* entry 0 and 16 in entry 1 with priorMax = 15 and pctPrev = 0.33.
C3_FeeFormula ==
    \A c \in calls :
        NoNegativo(c.uma_total) =>
            LET idx == IdxDe(c)
                d == c.ret.det
                m == Multiplicador
            IN  /\ d.pct_prev_max = PctAnterior(idx)
                /\ idx = 0 =>
                     /\ d.p1_uma = R(0)
                     /\ c.ret.total = RMul(RMul(c.uma_total, ESCALA[0].pct_min), m)
                /\ idx >= 1 =>
                     /\ d.p1_uma = MaxAnterior(idx)
                     /\ c.ret.total =
                          RAdd(RMul(RMul(MaxAnterior(idx), PctAnterior(idx)), m),
                               RMul(RMul(RSub(c.uma_total, MaxAnterior(idx)),
                                         ESCALA[idx].pct_min), m))
                /\ c.uma_total = R(15) => idx = 0
                /\ c.uma_total = R(16) =>
                     idx = 1 /\ d.p1_uma = R(15) /\ d.pct_prev_max = RNorm(33, 100)

\* both sides of the first limit have been regulated
C3_Witness ==
    /\ \E c \in calls : c.uma_total = R(15)
    /\ \E c \in calls : c.uma_total = R(16)

\* C4: the multiplier is the product of 1.4, 0.5 and 0.9 for the flags that
\* are set, whatever the order of the factors, and both effective rates are
\* the base rate times that multiplier.
C4_Multiplier ==
    /\ \A o \in Ordenes : Producto(o[1], o[2], o[3]) = Multiplicador
    /\ \A c \in calls :
         /\ c.ret.det.pct_p1_eff = RMul(c.ret.det.pct_prev_max, Multiplicador)
         /\ c.ret.det.pct_p2_eff = RMul(c.ret.det.pct_act_base_min, Multiplicador)
         /\ c.ret.det.pct_prev_max = PctAnterior(IdxDe(c))
         /\ c.ret.det.pct_act_base_min = c.ret.det.tramo_actual.pct_min

\* every adjustment on, and a call with both rates positive
C4_Witness ==
    /\ flags.es_apoderado /\ flags.mitad_art41 /\ flags.aplicar_menos10
    /\ \E c \in calls : RLt(R(0), c.ret.det.pct_p1_eff)

\* C5: of two totals a < b regulated in the same entry, under the same flags,
\* b gets the strictly greater fee.
C5_MonotoneInBracket ==
    \A a, b \in calls :
        ( /\ NoNegativo(a.uma_total)
          /\ RLt(a.uma_total, b.uma_total)
          /\ a.ret.det.tramo_actual = b.ret.det.tramo_actual )
        => RLt(a.ret.total, b.ret.total)

\* two totals regulated in the same entry, above the first
C5_Witness ==
    \E a, b \in calls :
        /\ a # b
        /\ a.ret.det.tramo_actual = b.ret.det.tramo_actual
        /\ IdxDe(a) >= 1

\* the value lies in the entry it was regulated in (no fallback)
EnTramo(c) == Contiene(c.ret.det.tramo_actual, c.uma_total)

\* C10 as stated: the fee never decreases when uma_total grows, over the
\* whole schedule.  It is read on the totals that lie in an entry of the
\* schedule, so that the values between two entries (C1) play no part in it.
C10_MonotoneOverall ==
    \A a, b \in calls :
        ( /\ NoNegativo(a.uma_total)
          /\ EnTramo(a) /\ EnTramo(b)
          /\ RLeq(a.uma_total, b.uma_total) )
        => RLeq(a.ret.total, b.ret.total)

\* C10 amended: the fee never decreases between two totals that lie in
\* entries of the schedule and do not exceed 750; from 750 to 751 it does
\* decrease.
C10_MonotoneUpTo750 ==
    \A a, b \in calls :
        /\ ( /\ EnTramo(a) /\ EnTramo(b)
             /\ RLeq(a.uma_total, b.uma_total)
             /\ RLeq(b.uma_total, R(750)) )
           => RLeq(a.ret.total, b.ret.total)
        /\ (a.uma_total = R(750) /\ b.uma_total = R(751))
           => RLt(b.ret.total, a.ret.total)

\* totals on both sides of a limit below 750 have been regulated
C10_Witness ==
    \E a, b \in calls : a.uma_total = R(450) /\ b.uma_total = R(451)

-----------------------------------------------------------------------------
(* Properties of RegulacionUMA.calcular *)

MsgFechas == "La fecha de corte debe ser ANTERIOR a la fecha de calculo."

MsgUma == "Ingrese un valor de UMA a la fecha de calculo mayor que 0."

MsgDivision == "float division by zero"

\* the text is a number
EsNumero(texto) == parse_float_robusto(texto).err = ""

Valor(texto) == parse_float_robusto(texto).val

\* the inputs the error cases are about
FechasNoAnteriores == dt_corte >= dt_calculo

UmaCalcNoPositiva == EsNumero(edt_uma_calc) /\ RLeq(Valor(edt_uma_calc), R(0))

ToMenos100 == EsNumero(edt_to) /\ Valor(edt_to) = R(-100)

\* everything up to the conversion to UMA is valid input
EntradaValida ==
    /\ EsNumero(edt_cap_planilla) /\ EsNumero(edt_int_planilla)
    /\ dt_corte < dt_calculo
    /\ EsNumero(edt_to) /\ EsNumero(edt_tm)
    /\ Valor(edt_to) # R(-100)
    /\ EsNumero(edt_uma_calc) /\ RLt(R(0), Valor(edt_uma_calc))

PagoAusente == strip(edt_uma_pago) = <<>>

PagoNoPositivo == EsNumero(edt_uma_pago) /\ RLeq(Valor(edt_uma_pago), R(0))

PagoPositivo == EsNumero(edt_uma_pago) /\ RLt(R(0), Valor(edt_uma_pago))

\* the result on display is the one of the form as it stands
ResultadoVigente == calcular_try.err = "" /\ out = calcular_try.doc

\* C6: when the cut-off date is not strictly before the calculation date, or
\* the UMA value at the calculation date is <= 0, calcular shows an error and
\* leaves the displayed result as it was.
C6_ErrorLeavesResult ==
    [][ (form' = form /\ (FechasNoAnteriores \/ UmaCalcNoPositiva) /\ calcular)
        => ( /\ shown' # NoDialog
             /\ out' = out
             /\ (EsNumero(edt_cap_planilla) /\ EsNumero(edt_int_planilla)
                 /\ FechasNoAnteriores) => shown' = MsgFechas
             /\ ( /\ EsNumero(edt_cap_planilla) /\ EsNumero(edt_int_planilla)
                  /\ dt_corte < dt_calculo
                  /\ EsNumero(edt_to) /\ EsNumero(edt_tm)
                  /\ Valor(edt_to) # R(-100)
                  /\ UmaCalcNoPositiva ) => shown' = MsgUma ) ]_vars

\* the date error shown for equal dates over a result displayed earlier
C6_Witness ==
    /\ shown = MsgFechas
    /\ dt_corte = dt_calculo
    /\ out # EmptyDoc

\* C7: with t_o = -100 calcular shows an error whatever the capital and t_m,
\* and displays nothing computed from the division.
C7_DivisionByZeroIsError ==
    [][ (form' = form /\ ToMenos100 /\ calcular)
        => ( /\ shown' # NoDialog
             /\ out' = out
             /\ ( /\ EsNumero(edt_cap_planilla) /\ EsNumero(edt_int_planilla)
                  /\ dt_corte < dt_calculo /\ EsNumero(edt_tm) )
                => shown' = MsgDivision ) ]_vars

\* the division error shown over a result displayed earlier
C7_Witness ==
    /\ shown = MsgDivision
    /\ ToMenos100
    /\ out # EmptyDoc

\* C8: the adjustment is capital x ((100 + t_m) / (100 + t_o) - 1), the base
\* is capital + interest + adjustment, and a result that differs from the one
\* before it only in the interest has the same adjustment.
C8_AdjustmentOnCapitalOnly ==
    /\ [] ( out # EmptyDoc =>
              /\ out.interes_adic =
                   RMul(out.cap_planilla,
                        RSub(RDiv(RAdd(R(100), out.t_m), RAdd(R(100), out.t_o)),
                             R(1)))
              /\ out.base_reg =
                   RAdd(RAdd(out.cap_planilla, out.int_planilla), out.interes_adic) )
    /\ [][ ( /\ out' # out
             /\ out # EmptyDoc /\ out' # EmptyDoc
             /\ out'.cap_planilla = out.cap_planilla
             /\ out'.t_o = out.t_o /\ out'.t_m = out.t_m )
           => out'.interes_adic = out.interes_adic ]_vars

\* a result with positive interest and a positive adjustment
C8_Witness ==
    /\ out # EmptyDoc
    /\ RLt(R(0), out.int_planilla)
    /\ RLt(R(0), out.interes_adic)

\* C9: with valid input otherwise, an absent or non-positive UMA value at
\* payment raises no error and the fee in UMA is displayed without an amount
\* in pesos; a positive one gives fee x value.
C9_OptionalConversion ==
    [][ (form' = form /\ EntradaValida /\ calcular)
        => ( /\ (PagoAusente \/ PagoNoPositivo) =>
                  /\ shown' = NoDialog
                  /\ out' # EmptyDoc
                  /\ out'.pesos_pago = None
                  /\ out'.honor_uma = RAdd(out'.det.res_a_uma, out'.det.res_b_uma)
             /\ PagoPositivo =>
                  /\ shown' = NoDialog
                  /\ out' # EmptyDoc
                  /\ out'.pesos_pago = RMul(out'.honor_uma, Valor(edt_uma_pago)) ) ]_vars

\* a result displayed with the UMA value at payment entered as 0
C9_Witness ==
    /\ ResultadoVigente
    /\ PagoNoPositivo
    /\ out.pesos_pago = None

=============================================================================
